---- MODULE Spec2Model ----
(***************************************************************************)
(* Template-name resolution and context composition of django_mc/mixins.py *)
(*                                                                         *)
(* Python lists and dicts are objects with identity: the model keeps them  *)
(* on a heap (three typed stores) and every method is an operator from a   *)
(* heap to a heap and a returned reference, so that aliasing and in-place  *)
(* mutation (list.extend, list.append, dict.update) are what the code      *)
(* does.  Strings are immutable values.                                    *)
(***************************************************************************)
EXTENDS Integers, Sequences, FiniteSets, TLC

VARIABLES heap, name_provider, call, result

vars == <<heap, name_provider, call, result>>

(***************************************************************************)
(* Bounds of the explored inputs.                                          *)
(***************************************************************************)
\* longest list of hint providers (members of a composite)
MaxProviders == 2
\* most hints plus context entries supplied by the members of one list
MaxItems == 2

\* Python's None (absent template_name, missing template variable)
None == "<None>"

HintValues == {"", "fancy", "lame"}
CtxKeys == {"gallery", "title"}
CtxValues == {"g1", "g2"}

(***************************************************************************)
(* Values: dicts are functions from a finite set of string keys.           *)
(***************************************************************************)
EmptyDict == [k \in {} |-> ""]

Falsy(v) == v = "" \/ v = None

\* dict.update on values: the keys of both, src winning
Merge(dst, src) ==
    [k \in (DOMAIN dst) \cup (DOMAIN src) |->
        IF k \in DOMAIN src THEN src[k] ELSE dst[k]]

Without(d, k) == [x \in (DOMAIN d) \ {k} |-> d[x]]

(***************************************************************************)
(* The heap.  sl: lists of strings, d: dicts, pl: lists of hint providers. *)
(* A reference is an index into its store; allocation appends.             *)
(***************************************************************************)
NewStrList(h) ==
    [h |-> [h EXCEPT !.sl = Append(h.sl, <<>>)], ret |-> Len(h.sl) + 1]

NewDict(h, content) ==
    [h |-> [h EXCEPT !.d = Append(h.d, content)], ret |-> Len(h.d) + 1]

NewProvList(h, content) ==
    [h |-> [h EXCEPT !.pl = Append(h.pl, content)], ret |-> Len(h.pl) + 1]

\* list.append(item) on the list object at reference a
ListAppend(h, a, item) == [h EXCEPT !.sl[a] = Append(h.sl[a], item)]

\* list.extend(other) on the list object at reference a
ListExtend(h, a, other) == [h EXCEPT !.sl[a] = h.sl[a] \o h.sl[other]]

\* dict.update(other) on the dict object at reference a
DictUpdate(h, a, other) == [h EXCEPT !.d[a] = Merge(h.d[a], h.d[other])]

(***************************************************************************)
(* django.template: Template(source) and Template.render(Context(ctx)).    *)
(* A template is a sequence of nodes: text, {{var}} and {%if%}...{%endif%} *)
(* whose condition is a disjunction of tests on variables.                 *)
(***************************************************************************)
Text(s) == [n |-> "text", s |-> s, cond |-> <<>>, body |-> <<>>]
Var(v) == [n |-> "var", s |-> v, cond |-> <<>>, body |-> <<>>]
IfNode(cond, body) == [n |-> "if", s |-> "", cond |-> cond, body |-> body]
Truth(v) == [k |-> "truth", v |-> v, lit |-> ""]
Eq(v, lit) == [k |-> "eq", v |-> v, lit |-> lit]
Ne(v, lit) == [k |-> "ne", v |-> v, lit |-> lit]

\* TemplateNameProvider.template_name, the class attribute
DefaultTemplateName ==
    "{{app_label}}/"
    \o "{%if partial or type == \"partial\"%}_{%endif%}"
    \o "{{object_name}}"
    \o "{%if type != \"partial\"%}_{{type}}{%endif%}"
    \o "{%if hint%}_{{hint}}{%endif%}"
    \o ".html"

\* a template_name a subclass or a caller may give instead
HintDirTemplateName == "{{app_label}}/{{hint}}/{{object_name}}.html"

ProbeNames == {"app_label", "object_name", "object", "hint", "type",
               "template_name"}

Probe(v) == "{{" \o v \o "}}"

\* Template(source): the parse of the template sources in use
Template(source) ==
    IF source = DefaultTemplateName THEN
        << Var("app_label"), Text("/"),
           IfNode(<<Truth("partial"), Eq("type", "partial")>>, <<Text("_")>>),
           Var("object_name"),
           IfNode(<<Ne("type", "partial")>>, <<Text("_"), Var("type")>>),
           IfNode(<<Truth("hint")>>, <<Text("_"), Var("hint")>>),
           Text(".html") >>
    ELSE IF source = HintDirTemplateName THEN
        << Var("app_label"), Text("/"), Var("hint"), Text("/"),
           Var("object_name"), Text(".html") >>
    ELSE IF \E v \in ProbeNames : source = Probe(v) THEN
        << Var(CHOOSE v \in ProbeNames : source = Probe(v)) >>
    ELSE << Text(source) >>

\* django.utils.html.conditional_escape on the strings in use
Escape(s) ==
    CASE s = "R&D" -> "R&amp;D"
      [] s = "<b>" -> "&lt;b&gt;"
      [] OTHER -> s

\* variable lookup inside {%if%}: a missing variable is None
Resolve(ctx, v) == IF v \in DOMAIN ctx THEN ctx[v] ELSE None

\* {{v}}: a missing variable renders as string_if_invalid, '' by default
RenderVar(ctx, v) == IF v \in DOMAIN ctx THEN Escape(ctx[v]) ELSE ""

Test(ctx, c) ==
    CASE c.k = "truth" -> ~Falsy(Resolve(ctx, c.v))
      [] c.k = "eq" -> Resolve(ctx, c.v) = c.lit
      [] c.k = "ne" -> Resolve(ctx, c.v) # c.lit

RECURSIVE RenderNodes(_, _)
RenderNodes(nodes, ctx) ==
    IF nodes = <<>> THEN ""
    ELSE LET node == Head(nodes)
             out == CASE node.n = "text" -> node.s
                      [] node.n = "var" -> RenderVar(ctx, node.s)
                      [] node.n = "if" ->
                            IF \E i \in 1..Len(node.cond) : Test(ctx, node.cond[i])
                            THEN RenderNodes(node.body, ctx)
                            ELSE ""
         IN out \o RenderNodes(Tail(nodes), ctx)

Render(template, ctx) == RenderNodes(template, ctx)

(***************************************************************************)
(* TemplateNameProvider                                                    *)
(***************************************************************************)
\* str.lower on the app labels and class names in use
Lower(s) ==
    CASE s = "App" -> "app"
      [] s = "ModelName" -> "modelname"
      [] s = "Gallery" -> "gallery"
      [] OTHER -> s

get_app_label(self) == Lower(self.app_label)

get_model_name(self) == Lower(self.object_name)

\* get_template_name with the update the other way round: the three built-in
\* variables win over the keyword arguments
get_template_name_BuiltinsWin(h, self, template_name, kwargs) ==
    LET tn == IF template_name = None THEN self.template_name ELSE template_name
        c == NewDict(h, Merge(h.d[kwargs],
                              [app_label |-> get_app_label(self),
                               object_name |-> get_model_name(self),
                               object |-> self.id]))
    IN [h |-> c.h, ret |-> Render(Template(tn), c.h.d[c.ret]), context |-> c.ret]

\* the body of get_template_name; kwargs is a reference to the dict of the
\* extra keyword arguments.  Returns the name and the context it was rendered in.
get_template_name(h, self, template_name, kwargs) ==
    LET tn == IF template_name = None THEN self.template_name ELSE template_name
        c == NewDict(h, [app_label |-> get_app_label(self),
                         object_name |-> get_model_name(self),
                         object |-> self.id])
        h2 == DictUpdate(c.h, c.ret, kwargs)
    IN [h |-> h2, ret |-> Render(Template(tn), h2.d[c.ret]), context |-> c.ret]

\* a call get_template_name(**kw): Python binds the keyword template_name to
\* the parameter of that name and collects the others in a new dict, kwargs
call_get_template_name(h, self, kw) ==
    LET template_name == IF "template_name" \in DOMAIN kw
                         THEN kw["template_name"] ELSE None
        k == NewDict(h, Without(kw, "template_name"))
    IN get_template_name(k.h, self, template_name, k.ret)

(***************************************************************************)
(* TemplateHintProvider.  A provider object is [hints, ctx]: the references *)
(* of the list and the dict its subclass returns from get_template_hints   *)
(* and suggest_context_data, or NotOverridden for the base class's method. *)
(***************************************************************************)
NotOverridden == 0

TemplateHintProvider_get_template_hints(h, self, np, hint_providers) ==
    IF self.hints = NotOverridden
    THEN NewStrList(h)
    ELSE [h |-> h, ret |-> self.hints]

TemplateHintProvider_suggest_context_data(h, self, np, hint_providers) ==
    IF self.ctx = NotOverridden
    THEN NewDict(h, EmptyDict)
    ELSE [h |-> h, ret |-> self.ctx]

\* the loop without its "if hint:" test
RECURSIVE suggest_template_names_loop_KeepsFalsy(_, _, _, _, _, _)
suggest_template_names_loop_KeepsFalsy(h, template_names, hints, i, np, kwargs) ==
    IF i > Len(h.sl[hints]) THEN h
    ELSE LET r == call_get_template_name(
                      h, np, Merge(h.d[kwargs], [hint |-> h.sl[hints][i]]))
         IN suggest_template_names_loop_KeepsFalsy(
                ListAppend(r.h, template_names, r.ret),
                template_names, hints, i + 1, np, kwargs)

\* the for loop of suggest_template_names, from the i-th hint on; the list of
\* hints is read where it lives, as Python's iteration does
RECURSIVE suggest_template_names_loop(_, _, _, _, _, _)
suggest_template_names_loop(h, template_names, hints, i, np, kwargs) ==
    IF i > Len(h.sl[hints]) THEN h
    ELSE LET hint == h.sl[hints][i]
         IN IF Falsy(hint)
            THEN suggest_template_names_loop(h, template_names, hints, i + 1,
                                             np, kwargs)
            ELSE LET r == call_get_template_name(
                              h, np, Merge(h.d[kwargs], [hint |-> hint]))
                 IN suggest_template_names_loop(
                        ListAppend(r.h, template_names, r.ret),
                        template_names, hints, i + 1, np, kwargs)

TemplateHintProvider_suggest_template_names(h, self, np, hint_providers, kwargs) ==
    LET t == NewStrList(h)
        hr == TemplateHintProvider_get_template_hints(t.h, self, np, hint_providers)
    IN [h |-> suggest_template_names_loop(hr.h, t.ret, hr.ret, 1, np, kwargs),
        ret |-> t.ret]

(***************************************************************************)
(* CompositeTemplateHintProvider: a list of providers, itself a reference  *)
(* into pl.  NoneRef is hint_providers=None.  The members are instances of *)
(* TemplateHintProvider; passing **kwargs on packs them into a new dict    *)
(* for the callee.                                                         *)
(***************************************************************************)
NoneRef == 0

DefaultToSelf(self, hint_providers) ==
    IF hint_providers = NoneRef THEN self ELSE hint_providers

RECURSIVE get_template_hints_loop(_, _, _, _, _)
get_template_hints_loop(h, template_hints, hint_providers, i, np) ==
    IF i > Len(h.pl[hint_providers]) THEN h
    ELSE LET r == TemplateHintProvider_get_template_hints(
                      h, h.pl[hint_providers][i], np, hint_providers)
         IN get_template_hints_loop(ListExtend(r.h, template_hints, r.ret),
                                    template_hints, hint_providers, i + 1, np)

\* get_template_hints with its return statement inside the for loop: it
\* returns after the first provider
Composite_get_template_hints_ReturnsInLoop(h, self, np, hint_providers) ==
    LET hps == DefaultToSelf(self, hint_providers)
        t == NewStrList(h)
    IN IF h.pl[hps] = <<>> THEN t
       ELSE LET r == TemplateHintProvider_get_template_hints(
                         t.h, h.pl[hps][1], np, hps)
            IN [h |-> ListExtend(r.h, t.ret, r.ret), ret |-> t.ret]

Composite_get_template_hints(h, self, np, hint_providers) ==
    LET hps == DefaultToSelf(self, hint_providers)
        t == NewStrList(h)
    IN [h |-> get_template_hints_loop(t.h, t.ret, hps, 1, np), ret |-> t.ret]

RECURSIVE suggest_context_data_loop(_, _, _, _, _)
suggest_context_data_loop(h, context_data, hint_providers, i, np) ==
    IF i > Len(h.pl[hint_providers]) THEN h
    ELSE LET r == TemplateHintProvider_suggest_context_data(
                      h, h.pl[hint_providers][i], np, hint_providers)
         IN suggest_context_data_loop(DictUpdate(r.h, context_data, r.ret),
                                      context_data, hint_providers, i + 1, np)

\* suggest_context_data that starts from the first provider's own mapping
\* instead of a new dict, and updates that
Composite_suggest_context_data_ReusesFirst(h, self, np, hint_providers) ==
    LET hps == DefaultToSelf(self, hint_providers)
    IN IF h.pl[hps] = <<>> THEN NewDict(h, EmptyDict)
       ELSE LET c == TemplateHintProvider_suggest_context_data(
                         h, h.pl[hps][1], np, hps)
            IN [h |-> suggest_context_data_loop(c.h, c.ret, hps, 2, np),
                ret |-> c.ret]

Composite_suggest_context_data(h, self, np, hint_providers) ==
    LET hps == DefaultToSelf(self, hint_providers)
        c == NewDict(h, EmptyDict)
    IN [h |-> suggest_context_data_loop(c.h, c.ret, hps, 1, np), ret |-> c.ret]

RECURSIVE Composite_suggest_template_names_loop(_, _, _, _, _, _)
Composite_suggest_template_names_loop(h, template_names, hint_providers, i, np, kwargs) ==
    IF i > Len(h.pl[hint_providers]) THEN h
    ELSE LET k == NewDict(h, h.d[kwargs])
             r == TemplateHintProvider_suggest_template_names(
                      k.h, k.h.pl[hint_providers][i], np, hint_providers, k.ret)
         IN Composite_suggest_template_names_loop(
                ListExtend(r.h, template_names, r.ret),
                template_names, hint_providers, i + 1, np, kwargs)

Composite_suggest_template_names(h, self, np, hint_providers, kwargs) ==
    LET hps == DefaultToSelf(self, hint_providers)
        t == NewStrList(h)
    IN [h |-> Composite_suggest_template_names_loop(t.h, t.ret, hps, 1, np,
                                                    kwargs),
        ret |-> t.ret]

(***************************************************************************)
(* TemplateNameProvider.get_template_names                                 *)
(***************************************************************************)
RECURSIVE get_template_names_loop(_, _, _, _, _, _)
get_template_names_loop(h, template_names, hint_providers, i, self, kwargs) ==
    IF i > Len(h.pl[hint_providers]) THEN h
    ELSE LET k == NewDict(h, h.d[kwargs])
             r == TemplateHintProvider_suggest_template_names(
                      k.h, k.h.pl[hint_providers][i], self, hint_providers, k.ret)
         IN get_template_names_loop(ListExtend(r.h, template_names, r.ret),
                                    template_names, hint_providers, i + 1, self,
                                    kwargs)

\* get_template_names that adds the un-hinted name before the hinted ones
get_template_names_FallbackFirst(h, self, hint_providers, kwargs) ==
    LET t == NewStrList(h)
        r == call_get_template_name(t.h, self, t.h.d[kwargs])
        h2 == ListAppend(r.h, t.ret, r.ret)
    IN [h |-> get_template_names_loop(h2, t.ret, hint_providers, 1, self, kwargs),
        ret |-> t.ret]

get_template_names(h, self, hint_providers, kwargs) ==
    LET t == NewStrList(h)
        h2 == get_template_names_loop(t.h, t.ret, hint_providers, 1, self, kwargs)
        r == call_get_template_name(h2, self, h2.d[kwargs])
    IN [h |-> ListAppend(r.h, t.ret, r.ret), ret |-> t.ret]

(***************************************************************************)
(* The inputs: a composite of at most MaxProviders providers which supply  *)
(* at most MaxItems hints and context entries between them, and the object *)
(* being rendered.                                                         *)
(***************************************************************************)
DictsOfSize(n) ==
    UNION {[K -> CtxValues] : K \in {S \in SUBSET CtxKeys : Cardinality(S) = n}}

MembersOfWeight(w) ==
    UNION {{[hints |-> hs, ctx |-> c] :
               hs \in [1..i -> HintValues], c \in DictsOfSize(w - i)} : i \in 0..w}

RECURSIVE MemberLists(_, _)
MemberLists(n, w) ==
    IF n = 0 THEN {<<>>}
    ELSE UNION {{<<m>> \o rest : m \in MembersOfWeight(wm),
                                 rest \in MemberLists(n - 1, w - wm)} : wm \in 0..w}

Worlds == UNION {MemberLists(n, MaxItems) : n \in 0..MaxProviders}

NameProviders ==
    {[id |-> "obj1", app_label |-> "app", object_name |-> "ModelName",
      template_name |-> DefaultTemplateName]}

\* the composite list is the first provider list on the heap
Composite == 1

\* member i keeps its hints in sl[i] and its context in d[i]; a member with
\* none of either is an instance of the base class
BuildHeap(ms) ==
    [sl |-> [i \in 1..Len(ms) |-> ms[i].hints],
     d |-> [i \in 1..Len(ms) |-> ms[i].ctx],
     pl |-> << [i \in 1..Len(ms) |->
                  [hints |-> IF ms[i].hints = <<>> THEN NotOverridden ELSE i,
                   ctx |-> IF DOMAIN ms[i].ctx = {} THEN NotOverridden ELSE i]] >>]

Members == heap.pl[Composite]

\* what the caller still holds of heap h2 after a call made on heap h: the
\* objects that existed before it, as the call left them
Kept(h, h2) ==
    [sl |-> SubSeq(h2.sl, 1, Len(h.sl)),
     d |-> SubSeq(h2.d, 1, Len(h.d)),
     pl |-> SubSeq(h2.pl, 1, Len(h.pl))]

\* kwargs is the dict of extra keyword arguments as the callee received it,
\* kwAfter the same dict object when the call returned; hp and hpAfter likewise
\* for an explicit hint_providers list
NoCall == [op |-> "none", member |-> 0, hp |-> <<>>, hpGiven |-> FALSE,
           hpAfter |-> <<>>, kw |-> EmptyDict, kwargs |-> EmptyDict,
           kwAfter |-> EmptyDict]

NoResult == [names |-> <<>>, data |-> EmptyDict, name |-> "", fresh |-> TRUE]

Init ==
    /\ \E ms \in Worlds : heap = BuildHeap(ms)
    /\ name_provider \in NameProviders
    /\ call = NoCall
    /\ result = NoResult

(***************************************************************************)
(* The calls a caller makes.  Keyword arguments are packed into a new dict *)
(* at each call; an explicit hint_providers list is a list the caller      *)
(* built from some of the providers.                                       *)
(***************************************************************************)
\* **kwargs given to the operations that compile lists of names
KwargsChoices == {EmptyDict, [type |-> "partial"], [hint |-> "lame"]}

\* keyword arguments given to get_template_name itself
NameKwChoices ==
    {EmptyDict,
     [hint |-> "fancy"],
     [type |-> "partial"],
     [partial |-> "yes"],
     [type |-> "detail", hint |-> "R&D"],
     [template_name |-> Probe("hint"), hint |-> "<b>"],
     [template_name |-> Probe("type")],
     [template_name |-> Probe("app_label"), app_label |-> "other"],
     [template_name |-> Probe("object_name"), object_name |-> "thing"],
     [template_name |-> Probe("object"), object |-> "another"],
     [template_name |-> Probe("object")],
     [template_name |-> Probe("template_name")]}

Slices(ms) == {SubSeq(ms, i, j) : i \in 1..(Len(ms) + 1), j \in 0..Len(ms)}

\* hint_providers as the caller passes it: a list built for the call when
\* given, else dflt (None, or the composite itself)
PassList(h, given, content, dflt) ==
    IF given THEN NewProvList(h, content) ELSE [h |-> h, ret |-> dflt]

ListAfter(h, given, ref) == IF given THEN h.pl[ref] ELSE <<>>

\* A call leaves the caller's objects as they were (heap' = Kept(heap, ...)),
\* so what a later call does shows on a first call and its repetition: a run
\* is one call, made again any number of times.
FirstOrAgain(op, member, given, L, kw) ==
    \/ call.op = "none"
    \/ /\ call.op = op
       /\ call.member = member
       /\ call.hpGiven = given
       /\ call.hp = L
       /\ call.kw = kw

\* provider.suggest_template_names(name_provider, composite, **kw), called on
\* member i; a kw that holds hint raises TypeError at line 49
ProviderSuggestTemplateNames ==
    \E i \in 1..Len(Members), kw \in KwargsChoices :
        /\ FirstOrAgain("provider.suggest_template_names", i, FALSE, <<>>, kw)
        /\ "hint" \notin DOMAIN kw
        /\ LET k == NewDict(heap, kw)
               r == TemplateHintProvider_suggest_template_names(
                        k.h, Members[i], name_provider, Composite, k.ret)
           IN /\ heap' = Kept(heap, r.h)
              /\ call' = [op |-> "provider.suggest_template_names",
                          member |-> i, hp |-> <<>>, hpGiven |-> FALSE,
                          hpAfter |-> <<>>, kw |-> kw, kwargs |-> kw, kwAfter |-> r.h.d[k.ret]]
              /\ result' = [names |-> r.h.sl[r.ret], data |-> EmptyDict,
                            name |-> "", fresh |-> r.ret > Len(heap.sl)]
        /\ UNCHANGED name_provider

\* composite.get_template_hints(name_provider[, hint_providers])
CompositeGetTemplateHints ==
    \E given \in BOOLEAN, L \in Slices(Members) :
        /\ given \/ L = <<>>
        /\ FirstOrAgain("composite.get_template_hints", 0, given, L, EmptyDict)
        /\ LET p == PassList(heap, given, L, NoneRef)
               r == Composite_get_template_hints(p.h, Composite, name_provider,
                                                 p.ret)
           IN /\ heap' = Kept(heap, r.h)
              /\ call' = [op |-> "composite.get_template_hints", member |-> 0,
                          hp |-> L, hpGiven |-> given,
                          hpAfter |-> ListAfter(r.h, given, p.ret),
                          kw |-> EmptyDict, kwargs |-> EmptyDict,
                          kwAfter |-> EmptyDict]
              /\ result' = [names |-> r.h.sl[r.ret], data |-> EmptyDict,
                            name |-> "", fresh |-> r.ret > Len(heap.sl)]
        /\ UNCHANGED name_provider

\* composite.suggest_context_data(name_provider[, hint_providers])
CompositeSuggestContextData ==
    \E given \in BOOLEAN, L \in Slices(Members) :
        /\ given \/ L = <<>>
        /\ FirstOrAgain("composite.suggest_context_data", 0, given, L, EmptyDict)
        /\ LET p == PassList(heap, given, L, NoneRef)
               r == Composite_suggest_context_data(p.h, Composite, name_provider,
                                                   p.ret)
           IN /\ heap' = Kept(heap, r.h)
              /\ call' = [op |-> "composite.suggest_context_data", member |-> 0,
                          hp |-> L, hpGiven |-> given,
                          hpAfter |-> ListAfter(r.h, given, p.ret),
                          kw |-> EmptyDict, kwargs |-> EmptyDict,
                          kwAfter |-> EmptyDict]
              /\ result' = [names |-> <<>>, data |-> r.h.d[r.ret],
                            name |-> "", fresh |-> r.ret > Len(heap.d)]
        /\ UNCHANGED name_provider

\* composite.suggest_template_names(name_provider[, hint_providers], **kw)
CompositeSuggestTemplateNames ==
    \E given \in BOOLEAN, L \in Slices(Members), kw \in KwargsChoices :
        /\ given \/ L = <<>>
        /\ FirstOrAgain("composite.suggest_template_names", 0, given, L, kw)
        /\ "hint" \notin DOMAIN kw
        /\ LET p == PassList(heap, given, L, NoneRef)
               k == NewDict(p.h, kw)
               r == Composite_suggest_template_names(k.h, Composite, name_provider,
                                                     p.ret, k.ret)
           IN /\ heap' = Kept(heap, r.h)
              /\ call' = [op |-> "composite.suggest_template_names", member |-> 0,
                          hp |-> L, hpGiven |-> given,
                          hpAfter |-> ListAfter(r.h, given, p.ret),
                          kw |-> kw, kwargs |-> kw, kwAfter |-> r.h.d[k.ret]]
              /\ result' = [names |-> r.h.sl[r.ret], data |-> EmptyDict,
                            name |-> "", fresh |-> r.ret > Len(heap.sl)]
        /\ UNCHANGED name_provider

\* name_provider.get_template_names(hint_providers, **kw), hint_providers the
\* composite itself or a plain list
GetTemplateNames ==
    \E given \in BOOLEAN, L \in Slices(Members), kw \in KwargsChoices :
        /\ given \/ L = <<>>
        /\ FirstOrAgain("get_template_names", 0, given, L, kw)
        /\ "hint" \notin DOMAIN kw
        /\ LET p == PassList(heap, given, L, Composite)
               k == NewDict(p.h, kw)
               r == get_template_names(k.h, name_provider, p.ret, k.ret)
           IN /\ heap' = Kept(heap, r.h)
              /\ call' = [op |-> "get_template_names", member |-> 0,
                          hp |-> L, hpGiven |-> given,
                          hpAfter |-> ListAfter(r.h, given, p.ret),
                          kw |-> kw, kwargs |-> kw, kwAfter |-> r.h.d[k.ret]]
              /\ result' = [names |-> r.h.sl[r.ret], data |-> EmptyDict,
                            name |-> "", fresh |-> r.ret > Len(heap.sl)]
        /\ UNCHANGED name_provider

\* name_provider.get_template_name(**kw); data is the context rendered in
GetTemplateName ==
    \E kw \in NameKwChoices :
        /\ FirstOrAgain("get_template_name", 0, FALSE, <<>>, kw)
        /\ LET r == call_get_template_name(heap, name_provider, kw)
           IN /\ heap' = Kept(heap, r.h)
              /\ call' = [op |-> "get_template_name", member |-> 0,
                          hp |-> <<>>, hpGiven |-> FALSE, hpAfter |-> <<>>,
                          kw |-> kw, kwargs |-> Without(kw, "template_name"),
                          kwAfter |-> r.h.d[Len(heap.d) + 1]]
              /\ result' = [names |-> <<>>, data |-> r.h.d[r.context],
                            name |-> r.ret, fresh |-> r.context > Len(heap.d)]
        /\ UNCHANGED name_provider

Next ==
    \/ ProviderSuggestTemplateNames
    \/ CompositeGetTemplateHints
    \/ CompositeSuggestContextData
    \/ CompositeSuggestTemplateNames
    \/ GetTemplateNames
    \/ GetTemplateName

Spec == Init /\ [][Next]_vars

(***************************************************************************)
(* What the operations are to return, on values.                           *)
(***************************************************************************)
HintsOf(m) == IF m.hints = NotOverridden THEN <<>> ELSE heap.sl[m.hints]

CtxOf(m) == IF m.ctx = NotOverridden THEN EmptyDict ELSE heap.d[m.ctx]

NameOf(kw) == call_get_template_name(heap, name_provider, kw).ret

NonEmptyHints(hs) == SelectSeq(hs, LAMBDA x : ~Falsy(x))

\* get_template_name(hint=h, **kw) for the non-empty hints h of m, in order
ExpectedNames(m, kw) ==
    LET hs == NonEmptyHints(HintsOf(m))
    IN [i \in 1..Len(hs) |-> NameOf(Merge(kw, [hint |-> hs[i]]))]

RECURSIVE ConcatHints(_)
ConcatHints(ms) ==
    IF ms = <<>> THEN <<>> ELSE HintsOf(Head(ms)) \o ConcatHints(Tail(ms))

RECURSIVE ConcatNames(_, _)
ConcatNames(ms, kw) ==
    IF ms = <<>> THEN <<>>
    ELSE ExpectedNames(Head(ms), kw) \o ConcatNames(Tail(ms), kw)

\* the union of the members' contexts, the last member that has a key winning
UnionLastWins(ms) ==
    LET keys == UNION {DOMAIN CtxOf(ms[i]) : i \in 1..Len(ms)}
        last(k) == CHOOSE i \in 1..Len(ms) :
                      /\ k \in DOMAIN CtxOf(ms[i])
                      /\ \A j \in (i + 1)..Len(ms) : k \notin DOMAIN CtxOf(ms[j])
    IN [k \in keys |-> CtxOf(ms[last(k)])[k]]

\* the list get_template_names or a composite method worked on
PassedList == IF call.hpGiven THEN call.hp ELSE Members

\* django.template.loader.select_template: the position of the first
\* candidate that exists, 0 when none does
FirstExisting(names, existing) ==
    IF \E i \in 1..Len(names) : names[i] \in existing
    THEN CHOOSE i \in 1..Len(names) :
            /\ names[i] \in existing
            /\ \A j \in 1..(i - 1) : names[j] \notin existing
    ELSE 0

\* get_template_names on a plain list holding the members of the composite
PlainListNames ==
    LET p == NewProvList(heap, Members)
        k == NewDict(p.h, call.kw)
        r == get_template_names(k.h, name_provider, p.ret, k.ret)
    IN r.h.sl[r.ret]

BuiltinVariables ==
    [app_label |-> Lower(name_provider.app_label),
     object_name |-> Lower(name_provider.object_name),
     object |-> name_provider.id]

(***************************************************************************)
(* C1                                                                      *)
(***************************************************************************)
\* C1: suggest_template_names of a provider whose get_template_hints returns H
\* returns get_template_name(hint=h, **kwargs) for the non-empty hints h of H,
\* in the order of H; its length is the number of non-empty hints.
C1_HintOrderPreserved ==
    call.op = "provider.suggest_template_names" =>
        LET H == HintsOf(Members[call.member])
        IN /\ result.names = ExpectedNames(Members[call.member], call.kw)
           /\ Len(result.names) =
                  Cardinality({i \in 1..Len(H) : ~Falsy(H[i])})

\* an empty hint before a non-empty one: one name, that of the second hint
C1_Witness ==
    /\ call.op = "provider.suggest_template_names"
    /\ call.kw = EmptyDict
    /\ HintsOf(Members[call.member]) = <<"", "fancy">>
    /\ result.names = <<"app/modelname__fancy.html">>

(***************************************************************************)
(* C2                                                                      *)
(***************************************************************************)
\* C2: composite.suggest_context_data returns the union of the mappings of the
\* composite's own children, later children overriding earlier ones; an empty
\* composite yields the empty mapping.
C2_UnionOfChildren ==
    call.op = "composite.suggest_context_data" =>
        result.data = UnionLastWins(Members)

(***************************************************************************)
(* C3                                                                      *)
(***************************************************************************)
\* C3: get_template_names returns a non-empty list: the providers' suggested
\* names in provider order, then the un-hinted get_template_name(**kwargs) as
\* the last element; so the first existing candidate is the un-hinted one only
\* when no candidate before it exists.
C3_FallbackLast ==
    call.op = "get_template_names" =>
        LET names == result.names
            n == Len(names)
        IN /\ n >= 1
           /\ names[n] = NameOf(call.kw)
           /\ SubSeq(names, 1, n - 1) = ConcatNames(PassedList, call.kw)
           /\ \A existing \in SUBSET {names[i] : i \in 1..n} :
                  FirstExisting(names, existing) = n =>
                      \A i \in 1..(n - 1) : names[i] \notin existing

\* two providers with one hint each: their names in order, then the fallback
C3_Witness ==
    /\ call.op = "get_template_names"
    /\ call.hpGiven
    /\ Len(call.hp) = 2
    /\ HintsOf(call.hp[1]) = <<"lame">>
    /\ HintsOf(call.hp[2]) = <<"fancy">>
    /\ Len(result.names) = 3

(***************************************************************************)
(* C4                                                                      *)
(***************************************************************************)
\* C4: with app label 'app', model name 'modelname', the default template_name
\* and no keyword arguments, the hints ['fancy', 'lame'] give exactly
\* app/modelname_fancy.html, app/modelname_lame.html, app/modelname.html.
C4_DocstringExample ==
    ( /\ call.op = "get_template_names"
      /\ call.kw = EmptyDict
      /\ Len(PassedList) = 1
      /\ HintsOf(PassedList[1]) = <<"fancy", "lame">> ) =>
        result.names = << "app/modelname_fancy.html",
                          "app/modelname_lame.html",
                          "app/modelname.html" >>

(***************************************************************************)
(* C5                                                                      *)
(***************************************************************************)
\* C5: called without hint_providers, a composite's get_template_hints is the
\* concatenation of its members' hints and its suggest_template_names the
\* concatenation of its members' suggested names, in member order; and
\* get_template_names(composite) equals get_template_names(plain list of the
\* same members).
C5_CompositeActsAsGroup ==
    /\ (call.op = "composite.get_template_hints" /\ ~call.hpGiven) =>
           result.names = ConcatHints(Members)
    /\ (call.op = "composite.suggest_template_names" /\ ~call.hpGiven) =>
           result.names = ConcatNames(Members, call.kw)
    /\ (call.op = "get_template_names" /\ ~call.hpGiven) =>
           /\ result.names = PlainListNames
           /\ result.names = ConcatNames(Members, call.kw) \o <<NameOf(call.kw)>>

\* two members that each supply hints, the composite called on its own
C5_Witness ==
    /\ call.op = "composite.get_template_hints"
    /\ ~call.hpGiven
    /\ Len(Members) = 2
    /\ HintsOf(Members[1]) # <<>>
    /\ HintsOf(Members[2]) # <<>>
    /\ Len(result.names) = 2

C7_PureOperations ==
    [][ /\ heap' = heap
        /\ call'.hpAfter = call'.hp
        /\ call'.kwAfter = call'.kwargs
        /\ result'.fresh
        /\ (call' = call => result' = result) ]_vars

\* a merge of two members' mappings, none of which is the mapping returned
C7_Witness ==
    /\ call.op = "composite.suggest_context_data"
    /\ ~call.hpGiven
    /\ Len(Members) = 2
    /\ DOMAIN CtxOf(Members[1]) = {"gallery"}
    /\ DOMAIN CtxOf(Members[2]) = {"title"}
    /\ DOMAIN result.data = {"gallery", "title"}
    /\ heap.d[1] # result.data

====
